---- MODULE Spec2Model ----
(***************************************************************************)
(* Model of the event-stream consumer of icinga2api/client.py.             *)
(*                                                                         *)
(* One Client owns one Events object (Client.__init__), and the Events     *)
(* object (a Base) owns the single field stream_cache.  A consumer is one  *)
(* caller in Subs.  It either calls Events.subscribe, or it drives the     *)
(* generator Base.fetech_from_stream over a chunk source and walks the     *)
(* yielded lists the way the loop of subscribe does (lines 1024-1026).     *)
(*                                                                         *)
(* Text is a sequence of one-character strings.  The alphabet is a digit, *)
(* a carriage return and a newline: "1" and "11" are JSON documents, the   *)
(* empty text and "1\r1" are not, and "\r\n" is a two-character delimiter. *)
(***************************************************************************)
EXTENDS Naturals, Sequences, FiniteSets

\* ---------------------------------------------------------------- bounds
MaxChunk == 3
MaxBytes == 4

\* ---------------------------------------------------------------- text
Chars == {"1", "\r", "\n"}
Subs == {"s1", "s2"}

Chunks == UNION {[1..n -> Chars] : n \in 1..MaxChunk}

\* the default of the parameter split_str
DefaultSplit == <<"\n">>
\* the delimiters a caller of fetech_from_stream may configure
SplitStrs == {<<"\n">>, <<"\r", "\n">>}

VARIABLES
    stream_cache,   \* Base.stream_cache of the client's Events object
    split_str,      \* the delimiter the caller passes to fetech_from_stream
    pc,             \* pc[s]: where consumer s stands
    err,            \* err[s]: the exception a call of s ended with
    pending,        \* pending[s]: the yielded list the inner loop still walks
    events,         \* events[s]: the values handed to the caller of s
    yielded,        \* yielded[s]: the lists fetech_from_stream yielded to s
    chunks,         \* history: the chunks the chunk source delivered to s
    fed,            \* history: every byte appended to stream_cache
    start_cache,    \* history: stream_cache when the call of s began
    overlapped,     \* history: another consumer streamed while s did
    call,           \* call[s]: the operation consumer s called
    types,          \* types[s]: the types argument of subscribe
    suspended,      \* suspended[s]: the generator of s rests at its yield
    conn,           \* conn[s]: the HTTP connection behind the call of s
    posts,          \* posts[s]: the requests sent for the call of s
    request_args,   \* request_args[s]: the keys _request passed to session.post
    status          \* status[s]: response.status_code, 0 before a response

net == <<call, types, suspended, conn, posts, request_args, status>>

vars == <<stream_cache, split_str, pc, err, pending, events, yielded,
          chunks, fed, start_cache, overlapped, net>>

\* ---------------------------------------------------------------- helpers
RECURSIVE Concat(_)
Concat(ss) == IF ss = <<>> THEN <<>> ELSE Head(ss) \o Concat(Tail(ss))

\* does d occur in s at index i
MatchAt(s, d, i) ==
    /\ i + Len(d) - 1 <= Len(s)
    /\ \A k \in 1..Len(d) : s[i + k - 1] = d[k]

\* index of the leftmost occurrence of d in s, 0 when there is none
Find(s, d) ==
    LET hits == {i \in 1..Len(s) : MatchAt(s, d, i)}
    IN  IF hits = {} THEN 0
        ELSE CHOOSE i \in hits : \A j \in hits : i <= j

\* str.split(sep) for a non-empty sep: the pieces between the leftmost
\* non-overlapping occurrences, one more piece than occurrences
RECURSIVE Split(_, _)
Split(s, d) ==
    LET i == Find(s, d)
    IN  IF i = 0 THEN <<s>>
        ELSE <<SubSeq(s, 1, i - 1)>> \o Split(SubSeq(s, i + Len(d), Len(s)), d)

\* line 321: self.stream_cache += chunk
BufferNoCarry(cache, chunk) == chunk
Buffer(cache, chunk) == cache \o chunk

\* line 323: if len(lines) >= 2
HasRecordsStrict(lines) == Len(lines) > 2
HasRecords(lines) == Len(lines) >= 2

\* line 324: self.stream_cache = lines[-1]
KeptTailFirst(lines) == lines[1]
KeptTail(lines) == lines[Len(lines)]

\* lines 321-324: the carry-over one turn of the loop leaves behind
NextCacheKeep(buffer, lines) == buffer
NextCacheClear(buffer, lines) ==
    IF Len(lines) >= 2 THEN lines[Len(lines)] ELSE <<>>
NextCache(buffer, lines) ==
    IF HasRecords(lines) THEN KeptTail(lines) ELSE buffer

\* line 325: yield lines[:-1]
RecordsReversed(lines) ==
    [i \in 1..(Len(lines) - 1) |-> lines[Len(lines) - i]]
Records(lines) == SubSeq(lines, 1, Len(lines) - 1)

\* line 1026: yield event -- the record text itself is handed on
Event(record) == [kind |-> "str", val |-> record]

\* line 265: the parameters _request accepts besides self
RequestParams == {"method", "url_path", "payload"}
\* line 1023: the keyword arguments subscribe passes to _request
SubscribeKeywords == {"stream"}
\* binding of a call's keyword arguments to the parameters of the callee
BindArguments(params, keywords) ==
    IF keywords \subseteq params THEN "ok" ELSE "TypeError"

\* the types a caller may pass to subscribe: none, a stream type, an unknown one
TypeSets == {{}, {"CheckResult"}, {"NoSuchType"}}

\* the status codes a server may answer with
StatusCodes == {199, 200, 299, 300, 500}

\* lines 286-294: the arguments of session.post
RequestArgs(has_payload) ==
    {"url"} \cup (IF has_payload THEN {"json"} ELSE {}) \cup {"verify"}

\* line 305: 200 <= response.status_code <= 299
StatusOkAny(code) == TRUE
StatusOk(code) == 200 <= code /\ code <= 299

\* the state of the new fields before any call
NetInit ==
    /\ call = [s \in Subs |-> "none"]
    /\ types = [s \in Subs |-> {}]
    /\ suspended = [s \in Subs |-> FALSE]
    /\ conn = [s \in Subs |-> "none"]
    /\ posts = [s \in Subs |-> 0]
    /\ request_args = [s \in Subs |-> {}]
    /\ status = [s \in Subs |-> 0]

\* ---------------------------------------------------------------- states
Init ==
    /\ stream_cache = <<>>
    /\ split_str = DefaultSplit
    /\ pc = [s \in Subs |-> "idle"]
    /\ err = [s \in Subs |-> "none"]
    /\ pending = [s \in Subs |-> <<>>]
    /\ events = [s \in Subs |-> <<>>]
    /\ yielded = [s \in Subs |-> <<>>]
    /\ chunks = [s \in Subs |-> <<>>]
    /\ fed = <<>>
    /\ start_cache = [s \in Subs |-> <<>>]
    /\ overlapped = [s \in Subs |-> FALSE]
    /\ NetInit

\* a caller that configures its own delimiter
InitSplit ==
    /\ stream_cache = <<>>
    /\ split_str \in SplitStrs
    /\ pc = [s \in Subs |-> "idle"]
    /\ err = [s \in Subs |-> "none"]
    /\ pending = [s \in Subs |-> <<>>]
    /\ events = [s \in Subs |-> <<>>]
    /\ yielded = [s \in Subs |-> <<>>]
    /\ chunks = [s \in Subs |-> <<>>]
    /\ fed = <<>>
    /\ start_cache = [s \in Subs |-> <<>>]
    /\ overlapped = [s \in Subs |-> FALSE]
    /\ NetInit

\* ---------------------------------------------------------------- actions
\* Events.subscribe is a generator function: the call only makes the generator
SubscribeCall(s, ty) ==
    /\ pc[s] = "idle"
    /\ pc' = [pc EXCEPT ![s] = "created"]
    /\ call' = [call EXCEPT ![s] = "subscribe"]
    /\ types' = [types EXCEPT ![s] = ty]
    /\ UNCHANGED <<stream_cache, split_str, err, pending, events, yielded,
                   chunks, fed, start_cache, overlapped>>
    /\ UNCHANGED <<suspended, conn, posts, request_args, status>>

\* the first next() runs the body up to the call of _request at line 1023,
\* whose keyword stream= is no parameter of _request
SubscribeNext(s) ==
    /\ pc[s] = "created"
    /\ BindArguments(RequestParams, SubscribeKeywords) = "TypeError"
    /\ pc' = [pc EXCEPT ![s] = "raised"]
    /\ err' = [err EXCEPT ![s] = "TypeError"]
    /\ UNCHANGED <<stream_cache, split_str, pending, events, yielded,
                   chunks, fed, start_cache, overlapped, net>>

\* a consumer starts fetech_from_stream over a chunk source
FetechStart(s) ==
    /\ pc[s] = "idle"
    /\ pc' = [pc EXCEPT ![s] = "streaming"]
    /\ start_cache' = [start_cache EXCEPT ![s] = stream_cache]
    /\ overlapped' = [t \in Subs |->
                        IF \E u \in Subs \ {s} : pc[u] = "streaming"
                        THEN (t = s \/ pc[t] = "streaming" \/ overlapped[t])
                        ELSE overlapped[t]]
    /\ call' = [call EXCEPT ![s] = "fetech"]
    /\ conn' = [conn EXCEPT ![s] = "open"]
    /\ UNCHANGED <<stream_cache, split_str, err, pending, events, yielded,
                   chunks, fed>>
    /\ UNCHANGED <<types, suspended, posts, request_args, status>>

\* one turn of the loop of fetech_from_stream on the next chunk (a text
\* chunk); generators on the same object take their turns one at a time
Feed(s, chunk) ==
    /\ pc[s] = "streaming"
    /\ pending[s] = <<>>
    /\ Len(fed) + Len(chunk) <= MaxBytes
    /\ LET buffer == Buffer(stream_cache, chunk)
           lines == Split(buffer, split_str)
       IN  /\ stream_cache' = NextCache(buffer, lines)
           /\ IF HasRecords(lines)
              THEN /\ yielded' = [yielded EXCEPT ![s] = Append(@, Records(lines))]
                   /\ pending' = [pending EXCEPT ![s] = Records(lines)]
              ELSE UNCHANGED <<yielded, pending>>
    /\ chunks' = [chunks EXCEPT ![s] = Append(@, chunk)]
    /\ fed' = fed \o chunk
    /\ suspended' = [suspended EXCEPT ![s] = FALSE]
    /\ UNCHANGED <<split_str, pc, err, events, start_cache, overlapped>>
    /\ UNCHANGED <<call, types, conn, posts, request_args, status>>

\* a loop that takes a record off the list without handing it on
DeliverDrop(s) ==
    /\ pc[s] = "streaming"
    /\ pending[s] # <<>>
    /\ pending' = [pending EXCEPT ![s] = Tail(@)]
    /\ suspended' = [suspended EXCEPT ![s] = TRUE]
    /\ UNCHANGED <<stream_cache, split_str, pc, err, yielded, chunks, fed,
                   start_cache, overlapped, events>>
    /\ UNCHANGED <<call, types, conn, posts, request_args, status>>

\* one turn of the inner loop of subscribe: the next record goes to the caller
\* and the generator rests at its yield
Deliver(s) ==
    /\ pc[s] = "streaming"
    /\ pending[s] # <<>>
    /\ events' = [events EXCEPT ![s] = Append(@, Event(Head(pending[s])))]
    /\ pending' = [pending EXCEPT ![s] = Tail(@)]
    /\ suspended' = [suspended EXCEPT ![s] = TRUE]
    /\ UNCHANGED <<stream_cache, split_str, pc, err, yielded, chunks, fed,
                   start_cache, overlapped>>
    /\ UNCHANGED <<call, types, conn, posts, request_args, status>>

\* the chunk source is exhausted: the for loop ends and the generator returns
EndOfStream(s) ==
    /\ pc[s] = "streaming"
    /\ pending[s] = <<>>
    /\ pc' = [pc EXCEPT ![s] = "done"]
    /\ suspended' = [suspended EXCEPT ![s] = FALSE]
    /\ conn' = [conn EXCEPT ![s] = "closed"]
    /\ UNCHANGED <<stream_cache, split_str, err, pending, events, yielded,
                   chunks, fed, start_cache, overlapped>>
    /\ UNCHANGED <<call, types, posts, request_args, status>>

\* the chunk source raises while the loop waits for the next chunk; neither
\* fetech_from_stream nor subscribe catches anything
StreamError(s) ==
    /\ pc[s] = "streaming"
    /\ pending[s] = <<>>
    /\ pc' = [pc EXCEPT ![s] = "raised"]
    /\ err' = [err EXCEPT ![s] = "ConnectionError"]
    /\ suspended' = [suspended EXCEPT ![s] = FALSE]
    /\ conn' = [conn EXCEPT ![s] = "closed"]
    /\ UNCHANGED <<stream_cache, split_str, pending, events, yielded,
                   chunks, fed, start_cache, overlapped>>
    /\ UNCHANGED <<call, types, posts, request_args, status>>

\* the caller stops iterating: the generator resting at its yield is closed;
\* the generators hold no finally and close nothing
Cancel(s) ==
    /\ pc[s] = "streaming"
    /\ suspended[s]
    /\ pc' = [pc EXCEPT ![s] = "cancelled"]
    /\ pending' = [pending EXCEPT ![s] = <<>>]
    /\ suspended' = [suspended EXCEPT ![s] = FALSE]
    /\ UNCHANGED <<stream_cache, split_str, err, events, yielded,
                   chunks, fed, start_cache, overlapped>>
    /\ UNCHANGED <<call, types, conn, posts, request_args, status>>

\* _request as the one-shot calls reach it (Status.list, Objects.list, ...):
\* the session is made, the arguments are built and session.post is entered
RequestPost(s, has_payload) ==
    /\ pc[s] = "idle"
    /\ pc' = [pc EXCEPT ![s] = "posted"]
    /\ call' = [call EXCEPT ![s] = "request"]
    /\ request_args' = [request_args EXCEPT ![s] = RequestArgs(has_payload)]
    /\ conn' = [conn EXCEPT ![s] = "open"]
    /\ posts' = [posts EXCEPT ![s] = @ + 1]
    /\ UNCHANGED <<stream_cache, split_str, err, pending, events, yielded,
                   chunks, fed, start_cache, overlapped>>
    /\ UNCHANGED <<types, suspended, status>>

\* session.post returns the response: the session is closed, then the status
\* code decides between the exception and the parsed body
RequestRespond(s, code) ==
    /\ pc[s] = "posted"
    /\ status' = [status EXCEPT ![s] = code]
    /\ conn' = [conn EXCEPT ![s] = "closed"]
    /\ IF StatusOk(code)
       THEN /\ pc' = [pc EXCEPT ![s] = "returned"]
            /\ UNCHANGED err
       ELSE /\ pc' = [pc EXCEPT ![s] = "raised"]
            /\ err' = [err EXCEPT ![s] = "Icinga2ApiException"]
    /\ UNCHANGED <<stream_cache, split_str, pending, events, yielded,
                   chunks, fed, start_cache, overlapped>>
    /\ UNCHANGED <<call, types, suspended, posts, request_args>>

\* session.post raises (refused, reset): the exception leaves _request
RequestFail(s) ==
    /\ pc[s] = "posted"
    /\ pc' = [pc EXCEPT ![s] = "raised"]
    /\ err' = [err EXCEPT ![s] = "ConnectionError"]
    /\ conn' = [conn EXCEPT ![s] = "closed"]
    /\ UNCHANGED <<stream_cache, split_str, pending, events, yielded,
                   chunks, fed, start_cache, overlapped>>
    /\ UNCHANGED <<call, types, suspended, posts, request_args, status>>

Next ==
    \/ \E s \in Subs : \E ty \in TypeSets : SubscribeCall(s, ty)
    \/ \E s \in Subs : SubscribeNext(s)
    \/ \E s \in Subs : FetechStart(s)
    \/ \E s \in Subs : \E chunk \in Chunks : Feed(s, chunk)
    \/ \E s \in Subs : Deliver(s)
    \/ \E s \in Subs : EndOfStream(s)
    \/ \E s \in Subs : StreamError(s)
    \/ \E s \in Subs : Cancel(s)
    \/ \E s \in Subs : \E has_payload \in BOOLEAN : RequestPost(s, has_payload)
    \/ \E s \in Subs : \E code \in StatusCodes : RequestRespond(s, code)
    \/ \E s \in Subs : RequestFail(s)

Spec == Init /\ [][Next]_vars

SpecSplit == InitSplit /\ [][Next]_vars

TypeOK ==
    /\ pc \in [Subs -> {"idle", "created", "raised", "streaming", "done",
                        "cancelled", "posted", "returned"}]
    /\ conn \in [Subs -> {"none", "open", "closed"}]
    /\ split_str \in SplitStrs
    /\ Len(fed) <= MaxBytes

\* ---------------------------------------------------------------- claims
NL == "\n"

\* the bytes the chunk source of s has delivered so far
Sent(s) == Concat(chunks[s])

\* the positions of the newline in a text
DelimPositions(str) == {i \in 1..Len(str) : str[i] = NL}

\* the position of the k-th newline of a text, 0 for k = 0
DelimAt(str, k) ==
    IF k = 0 THEN 0
    ELSE CHOOSE i \in DelimPositions(str) :
            Cardinality({j \in DelimPositions(str) : j <= i}) = k

LastDelim(str) ==
    IF DelimPositions(str) = {} THEN 0
    ELSE CHOOSE i \in DelimPositions(str) :
            \A j \in DelimPositions(str) : j <= i

\* the text between the (k-1)-th and the k-th newline
RecordAt(str, k) == SubSeq(str, DelimAt(str, k - 1) + 1, DelimAt(str, k) - 1)

RECURSIVE JoinWithDelim(_)
JoinWithDelim(recs) ==
    IF recs = <<>> THEN <<>>
    ELSE Head(recs) \o <<NL>> \o JoinWithDelim(Tail(recs))

\* s runs fetech_from_stream from an empty carry-over, no other consumer
\* streaming meanwhile
Clean(s) ==
    /\ pc[s] \in {"streaming", "done"}
    /\ start_cache[s] = <<>>
    /\ ~overlapped[s]

\* the step is a turn of the loop of s on a new chunk
FeedStep(s) == Len(chunks'[s]) = Len(chunks[s]) + 1
NewChunk(s) == chunks'[s][Len(chunks'[s])]
NewYield(s) == yielded'[s][Len(yielded'[s])]

\* C1: a run from an empty carry-over has yielded, whatever the chunking,
\* as many records as the bytes fed hold newlines, and the records with the
\* newline put back after each are the bytes fed up to the last newline.
C1_NoDataLoss ==
    \A s \in Subs : Clean(s) =>
        LET recs == Concat(yielded[s])
        IN  /\ Len(recs) = Cardinality(DelimPositions(Sent(s)))
            /\ JoinWithDelim(recs) = SubSeq(Sent(s), 1, LastDelim(Sent(s)))

C1_Witness ==
    \E s \in Subs :
        /\ Clean(s)
        /\ Len(chunks[s]) >= 2
        /\ chunks[s][1][Len(chunks[s][1])] # NL
        /\ Len(Concat(yielded[s])) >= 2

\* C2: the k-th value handed to the caller is the record the k-th newline of
\* the stream ends, inside one chunk and across chunks.
C2_ReceiptOrder ==
    \A s \in Subs : Clean(s) =>
        /\ Len(events[s]) <= Cardinality(DelimPositions(Sent(s)))
        /\ \A k \in 1..Len(events[s]) :
              events[s][k].val = RecordAt(Sent(s), k)

C2_Witness ==
    \E s \in Subs :
        /\ Clean(s)
        /\ Len(chunks[s]) >= 2
        /\ \E i \in 1..Len(yielded[s]) : Len(yielded[s][i]) >= 2
        /\ Len(events[s]) >= 3
        /\ events[s][1] # events[s][2]

\* C3: a call that begins while no other consumer streams begins with an
\* empty carry-over.
C3_EmptyAtStart ==
    \A s \in Subs :
        (pc[s] \in {"streaming", "done"} /\ ~overlapped[s])
            => start_cache[s] = <<>>

\* C4: a consumer that began with an empty carry-over and streams next to
\* another one has yielded the records of its own stream.
C4_Isolation ==
    \A s \in Subs :
        (pc[s] \in {"streaming", "done"} /\ start_cache[s] = <<>>
            /\ overlapped[s])
            => /\ Len(Concat(yielded[s])) = Cardinality(DelimPositions(Sent(s)))
               /\ \A k \in 1..Len(Concat(yielded[s])) :
                     Concat(yielded[s])[k] = RecordAt(Sent(s), k)

\* C5: once a stream has ended and nobody streams, no carry-over is left.
C5_TailDiscarded ==
    \A s \in Subs :
        (pc[s] = "done" /\ \A t \in Subs : pc[t] # "streaming")
            => stream_cache = <<>>

\* C6 as stated: a chunk without an occurrence of the configured delimiter
\* yields no record.
C6_NoPrematureEmission ==
    [][\A s \in Subs :
          (FeedStep(s) /\ Find(NewChunk(s), split_str) = 0)
              => yielded'[s] = yielded[s]]_vars

\* C6 amended: with a delimiter of one character, a chunk without an
\* occurrence of it yields no record.
C6_NoPrematureEmissionOneChar ==
    [][\A s \in Subs :
          (FeedStep(s) /\ Len(split_str) = 1
              /\ Find(NewChunk(s), split_str) = 0)
              => yielded'[s] = yielded[s]]_vars

C6_Witness ==
    \E s \in Subs :
        /\ Len(split_str) = 1
        /\ Len(chunks[s]) >= 2
        /\ \A i \in 1..Len(chunks[s]) : Find(chunks[s][i], split_str) = 0
        /\ yielded[s] = <<>>
        /\ stream_cache = Sent(s)

\* C7: a chunk that ends on the newline has its last record yielded by the
\* same turn, which leaves an empty carry-over; "1\n" then "\r\n" yields
\* ["1"] and then ["\r"].
C7_Example ==
    \A s \in Subs :
        (Clean(s) /\ chunks[s] = << <<"1", NL>>, <<"\r", NL>> >>)
            => yielded[s] = << << <<"1">> >>, << <<"\r">> >> >>

C7_ExactBoundary ==
    /\ []C7_Example
    /\ [][\A s \in Subs :
             (FeedStep(s) /\ NewChunk(s)[Len(NewChunk(s))] = NL)
                 => /\ stream_cache' = <<>>
                    /\ Len(yielded'[s]) = Len(yielded[s]) + 1
                    /\ LET c == NewChunk(s)
                           r == NewYield(s)[Len(NewYield(s))]
                       IN  \/ Len(c) = 1
                           \/ DelimPositions(SubSeq(c, 1, Len(c) - 1)) # {}
                           \/ r = stream_cache \o SubSeq(c, 1, Len(c) - 1)]_vars

C7_Witness ==
    \E s \in Subs :
        /\ Clean(s)
        /\ chunks[s] = << <<"1", NL>>, <<"\r", NL>> >>
        /\ yielded[s] = << << <<"1">> >>, << <<"\r">> >> >>
        /\ stream_cache = <<>>

\* C8: the carry-over is the bytes fed since the last newline, so it holds no
\* newline, and it is the head of the first record of the next yield; "\n1"
\* yields [""] and keeps "1", and then "1\n" yields ["11"].
C8_Example ==
    \A s \in Subs :
        (Clean(s) /\ chunks[s] = << <<NL, "1">>, <<"1", NL>> >>)
            => yielded[s] = << << <<>> >>, << <<"1", "1">> >> >>

C8_PartialTail ==
    /\ [](stream_cache = SubSeq(fed, LastDelim(fed) + 1, Len(fed)))
    /\ []C8_Example
    /\ [][\A s \in Subs :
             (FeedStep(s) /\ DelimPositions(NewChunk(s)) # {})
                 => /\ yielded'[s] # yielded[s]
                    /\ NewYield(s)[1] = stream_cache \o RecordAt(NewChunk(s), 1)]_vars

C8_Witness ==
    \E s \in Subs :
        /\ Clean(s)
        /\ chunks[s] = << <<NL, "1">>, <<"1", NL>> >>
        /\ yielded[s] = << << <<>> >>, << <<"1", "1">> >> >>

\* What the specification expects of a record: JSON text, which over this
\* alphabet is white space around one number.  client.py has no counterpart.
IsWs(c) == c \in {"\r", "\n"}

Strip(rec) ==
    LET idx == {i \in 1..Len(rec) : ~IsWs(rec[i])}
    IN  IF idx = {} THEN <<>>
        ELSE SubSeq(rec, CHOOSE i \in idx : \A j \in idx : i <= j,
                         CHOOSE i \in idx : \A j \in idx : j <= i)

json_valid(rec) ==
    /\ Strip(rec) # <<>>
    /\ \A i \in 1..Len(Strip(rec)) : Strip(rec)[i] = "1"

json_loads(rec) ==
    IF json_valid(rec) THEN [kind |-> "num", val |-> Strip(rec)]
    ELSE [kind |-> "error", val |-> rec]

\* C9: over a stream whose records all are JSON, the k-th value handed to the
\* caller is the parsed k-th record, and a finished run handed on all of them.
C9_ParsedEvents ==
    \A s \in Subs :
        (Clean(s) /\ \A k \in 1..Cardinality(DelimPositions(Sent(s))) :
                        json_valid(RecordAt(Sent(s), k)))
            => /\ Len(events[s]) <= Cardinality(DelimPositions(Sent(s)))
               /\ \A k \in 1..Len(events[s]) :
                     events[s][k] = json_loads(RecordAt(Sent(s), k))
               /\ pc[s] = "done" =>
                     Len(events[s]) = Cardinality(DelimPositions(Sent(s)))

\* C10: a record that is not JSON is never handed to the caller as an event.
C10_FailFast ==
    \A s \in Subs : \A k \in 1..Len(events[s]) :
        /\ events[s][k].kind # "error"
        /\ json_valid(events[s][k].val)

\* C11: a subscribe call with empty types has failed with a configuration
\* error, whatever else happened.
C11_EmptyTypesRejected ==
    \A s \in Subs :
        (call[s] = "subscribe" /\ types[s] = {})
            => (pc[s] = "raised" /\ err[s] = "ConfigurationError")

\* C12: a subscribe call whose sequence has been asked for a value has opened
\* one HTTP connection.
C12_OneConnection ==
    \A s \in Subs :
        (call[s] = "subscribe" /\ pc[s] # "created") => posts[s] = 1

\* C13: once the caller has stopped iterating, the connection is closed.
C13_CancelCloses ==
    \A s \in Subs : pc[s] = "cancelled" => conn[s] = "closed"

\* C14: a response outside 200..299 or a failing connection ends the call with
\* the error; after the error no event is handed on, no chunk is read and no
\* request is sent, and no call ever sends a second request.
C14_Surfaced ==
    \A s \in Subs :
        /\ posts[s] <= 1
        /\ (status[s] # 0 /\ status[s] \notin 200..299)
              => (pc[s] = "raised" /\ err[s] = "Icinga2ApiException")
        /\ (call[s] = "fetech" /\ conn[s] = "closed")
              => pc[s] \in {"done", "raised"}
        /\ pc[s] = "raised" => err[s] # "none"

C14_TerminalNoRetry ==
    /\ []C14_Surfaced
    /\ [][\A s \in Subs :
             pc[s] = "raised"
                 => /\ pc'[s] = "raised"
                    /\ err'[s] = err[s]
                    /\ events'[s] = events[s]
                    /\ chunks'[s] = chunks[s]
                    /\ posts'[s] = posts[s]]_vars

C14_Witness ==
    \E s \in Subs : \E t \in Subs :
        /\ status[s] = 500
        /\ pc[s] = "raised"
        /\ err[s] = "Icinga2ApiException"
        /\ call[t] = "fetech"
        /\ pc[t] = "raised"
        /\ err[t] = "ConnectionError"
        /\ events[t] # <<>>

\* C15: a call that waits for the server has handed a timeout to the request,
\* without which a silent server is waited for without end.
C15_TimeoutArmed ==
    \A s \in Subs : pc[s] = "posted" => "timeout" \in request_args[s]

\* C16: when the next chunk is read, every record yielded so far has been
\* handed to the caller, one event per record and in order; while a list is
\* walked, the events and the records still to come are the records yielded.
C16_Delivered ==
    \A s \in Subs :
        pc[s] = "streaming"
            => [k \in 1..Len(events[s]) |-> events[s][k].val] \o pending[s]
                   = Concat(yielded[s])

C16_LazyDelivery ==
    /\ []C16_Delivered
    /\ [][\A s \in Subs :
             FeedStep(s)
                 => /\ pending[s] = <<>>
                    /\ Len(events[s]) = Len(Concat(yielded[s]))
                    /\ \A k \in 1..Len(events[s]) :
                          events[s][k].val = Concat(yielded[s])[k]]_vars

C16_Witness ==
    \E s \in Subs :
        /\ Clean(s)
        /\ Len(chunks[s]) >= 2
        /\ Cardinality(DelimPositions(chunks[s][1])) >= 2
        /\ Len(events[s]) >= 2
        /\ Len(yielded[s]) >= 1
        /\ Len(yielded[s][1]) >= 2

\* C17 as stated: a turn whose buffer holds no newline or one newline yields
\* nothing and keeps the whole buffer.
C17_ZeroOrOneDelimiter ==
    [][\A s \in Subs :
          (FeedStep(s)
              /\ Cardinality(DelimPositions(stream_cache \o NewChunk(s))) <= 1)
              => /\ yielded'[s] = yielded[s]
                 /\ stream_cache' = stream_cache \o NewChunk(s)]_vars

\* C17 amended: a turn whose buffer holds no newline yields nothing and keeps
\* the whole buffer.
C17_ZeroDelimiters ==
    [][\A s \in Subs :
          (FeedStep(s) /\ DelimPositions(stream_cache \o NewChunk(s)) = {})
              => /\ yielded'[s] = yielded[s]
                 /\ stream_cache' = stream_cache \o NewChunk(s)]_vars

C17_Witness ==
    \E s \in Subs :
        /\ Clean(s)
        /\ Len(chunks[s]) = 3
        /\ DelimPositions(Sent(s)) = {}
        /\ yielded[s] = <<>>
        /\ stream_cache = Sent(s)

====
